---- MODULE Spec2Model ----
(***************************************************************************)
(* Model of the debate bot: the key store (src/src/database.py), the       *)
(* debate session (src/src/debate_manager.py) and the model clients'       *)
(* in-band error strings (src/src/ai_clients.py), and the handlers of the   *)
(* conversation controller that reach them (src/src/bot.py).               *)
(*                                                                         *)
(* A response text is modelled as a sequence of words; the substring test  *)
(* `"Помилка" in response` is the test that one of the words is the        *)
(* marker word (written "Pomylka" here).                                   *)
(***************************************************************************)
EXTENDS Integers, Sequences, FiniteSets, TLC

\* ---------------------------------------------------------------- bounds
MaxCalls == 1          \* calls_remaining of the stored rows at start: 0..MaxCalls
MaxOverdraft == 1      \* decrements are explored down to -MaxOverdraft
MaxRoundsChoice == 2   \* max_rounds passed to the constructor: MinRounds..MaxRoundsChoice
MaxKeyLen == 3         \* length of the credentials given to encrypt_key: 1..MaxKeyLen
MaxRows == 2           \* rows add_api_key may insert into user_api_keys

\* ---------------------------------------------------------------- constants
MinRounds == 2                 \* bot.py: "rounds <= 1" is rejected
FernetKeyLen == 44             \* database.py: len(key_string) == 44
DefaultCalls == 1000           \* database.py: calls_remaining INTEGER DEFAULT 1000
ControllerMaxRounds == 3       \* bot.py: DebateSession(..., max_rounds=3)
MinApiKeyLen == 10             \* bot.py: len(api_key) < 10
MinAliasLen == 3               \* bot.py: len(alias) < 3
AliasLenLimit == 100           \* bot.py: len(alias) > 100

\* the parameters of DatabaseManager.decrement_calls after self
decrement_calls_params == <<"key_id", "user_id">>

KeyIds == {1, 2}
UserIds == {10, 20}
Sessions == {"s1", "s2"}
RoundChoices == MinRounds..MaxRoundsChoice

\* owner_id column of the stored rows: both keys belong to user 10
OwnerOf == [k \in KeyIds |-> 10]

\* list(self.clients.keys()): the insertion order of clients_map
client_names == <<"P1", "P2">>
ai1_name == client_names[1]
ai2_name == client_names[2]

ERROR_MARKER == "Pomylka"
NoResponse == <<>>
\* what a participant's generate_response can return: a generated text, or an
\* in-band error string ("Помилка генерації ...")
GeneratedText(name) == <<"Arg", name>>
ErrorString == <<"Pomylka", "generatsii">>
Responses(name) == { GeneratedText(name), ErrorString }

\* "Помилка" in response
HasErrorMarker(response) == \E i \in 1..Len(response) : response[i] = ERROR_MARKER

VARIABLES
    user_api_keys,   \* table user_api_keys: id -> [owner_id, calls_remaining]
    initial_calls,   \* calls_remaining of each row when the run started
    dec_ok,          \* per key: number of decrement_calls that returned True
                     \* (a call that returns False changes nothing)
    sessions,        \* DebateSession objects
    call,            \* the next_round coroutine of each session
    result,          \* what the last completed next_round call gave its caller
    using_postgres,  \* DatabaseManager.using_postgres: DATABASE_URL is set
    ENCRYPTION_KEY,  \* the environment variable read by get_encryption_key
    user_profiles,   \* table user_profiles: user_id -> [exists, active_key_id]
    active_sessions, \* bot.py: the dict user_id -> DebateSession
    reply,           \* the last key-store call or handled update, with its outcome
    crypto,          \* a credential on its way through encrypt_key and decrypt_key
    conversations,   \* the ConversationHandler: user_id -> state of the dialog
    user_data        \* context.user_data of each user

session_vars == <<initial_calls, dec_ok, sessions, call, result>>
chat_vars == <<conversations, user_data>>
bot_vars == <<using_postgres, ENCRYPTION_KEY, user_profiles, active_sessions, reply, crypto,
              chat_vars>>
vars == <<user_api_keys, initial_calls, dec_ok, sessions, call, result,
          using_postgres, ENCRYPTION_KEY, user_profiles, active_sessions, reply, crypto,
          conversations, user_data>>

\* the shape of the state: the stored rows, the DebateSession fields and the
\* position of each next_round coroutine
TypeOK ==
    /\ \A k \in DOMAIN user_api_keys :
          /\ user_api_keys[k].owner_id \in UserIds
          /\ user_api_keys[k].calls_remaining \in Int
    /\ \A s \in Sessions :
          /\ sessions[s].exists \in BOOLEAN
          /\ sessions[s].exists =>
                /\ sessions[s].round \in 0..sessions[s].MAX_ROUNDS
                /\ sessions[s].is_running \in BOOLEAN
                /\ sessions[s].MAX_ROUNDS \in RoundChoices
                /\ DOMAIN sessions[s].key_ids = {ai1_name, ai2_name}
                /\ Len(sessions[s].history) <= sessions[s].round
          /\ call[s].pc \in {"idle", "gather"}
          /\ call[s].response1 \in Responses(ai1_name) \cup {NoResponse}
          /\ call[s].response2 \in Responses(ai2_name) \cup {NoResponse}
          /\ result[s].kind \in {"none", "pending", "returned", "raised"}
    /\ using_postgres \in BOOLEAN
    /\ \A u \in UserIds :
          /\ user_profiles[u].exists \in BOOLEAN
          /\ user_profiles[u].active_key_id \in Nat
          /\ active_sessions[u].exists \in BOOLEAN
    /\ reply.op \in {"none", "add_api_key", "get_user_api_keys", "get_api_key_decrypted",
                      "set_active_key", "handle_question", "handle_debate_callback",
                      "generate_response", "get_active_key_id", "decrement_calls",
                      "process_update"}
    /\ \A u \in UserIds :
          /\ conversations[u] \in {"END", "CHOOSING_ROUNDS", "AWAITING_SERVICE",
                                   "AWAITING_KEY", "AWAITING_ALIAS"}
          /\ user_data[u].rounds \in Nat
    /\ crypto.pc \in {"start", "encrypted", "decrypted"}

NoSession == [exists |-> FALSE]
NoTask == [created |-> FALSE]
IdleCall == [pc |-> "idle", response1 |-> NoResponse, response2 |-> NoResponse,
             debate_history |-> <<>>, task1 |-> NoTask, task2 |-> NoTask]
NoResult == [kind |-> "none"]
NoReply == [op |-> "none"]
NoCrypto == [pc |-> "start"]

\* values of ENCRYPTION_KEY: the passphrase of test_flow.py (41 characters) and
\* a key as Fernet.generate_key() gives it (44 characters, url-safe base64 of
\* 32 bytes)
TestPassphrase == [text |-> "test-key-for-development-only-32-chars!!!", length |-> 41]
GeneratedKey == [text |-> "a key from Fernet.generate_key()", length |-> FernetKeyLen]
EnvKeys == { TestPassphrase, GeneratedKey }

\* ConversationHandler.END: the user is in no dialog
END == "END"
NoConversations == [u \in UserIds |-> END]

\* context.user_data before any handler wrote to it; an absent 'rounds' is
\* written 0, an absent 'service_key' "" and an absent 'api_key' <<>>
NoUserData == [rounds |-> 0, service_key |-> "", api_key |-> <<>>]

\* no session is registered for any user
NoActiveSessions == [u \in UserIds |-> NoSession]

\* the stored profile rows: a row for the owner of the stored keys
ProfileRow(exists) == [exists |-> exists, active_key_id |-> 0]

\* Spec is the bot on PostgreSQL with two stored keys of one user; nothing of
\* the controller runs in it
Init ==
    /\ \E c \in 0..MaxCalls :
          user_api_keys = [k \in KeyIds |-> [owner_id |-> OwnerOf[k], calls_remaining |-> c]]
    /\ initial_calls = [k \in KeyIds |-> user_api_keys[k].calls_remaining]
    /\ dec_ok = [k \in KeyIds |-> 0]
    /\ sessions = [s \in Sessions |-> NoSession]
    /\ call = [s \in Sessions |-> IdleCall]
    /\ result = [s \in Sessions |-> NoResult]
    /\ using_postgres = TRUE
    /\ ENCRYPTION_KEY = TestPassphrase
    /\ user_profiles = [u \in UserIds |-> ProfileRow(\E k \in KeyIds : OwnerOf[k] = u)]
    /\ active_sessions = NoActiveSessions
    /\ reply = NoReply
    /\ crypto = NoCrypto
    /\ conversations = NoConversations
    /\ user_data = [u \in UserIds |-> NoUserData]

\* ---------------------------------------------------------------- key store

\* UPDATE user_api_keys SET calls_remaining = calls_remaining - 1
\*   WHERE id = %s AND owner_id = %s;  return cursor.rowcount > 0
UpdateMatches(table, key_id, user_id) ==
    {k \in DOMAIN table : k = key_id /\ table[k].owner_id = user_id}

DecrementRows(table, key_id, user_id) ==
    [k \in DOMAIN table |->
        IF k \in UpdateMatches(table, key_id, user_id)
        THEN [table[k] EXCEPT !.calls_remaining = @ - 1]
        ELSE table[k]]

DecrementReturn(table, key_id, user_id) ==
    Cardinality(UpdateMatches(table, key_id, user_id)) > 0

\* the tally of calls that returned True, after one more call
CountOk(tally, table, key_id, user_id) ==
    [k \in DOMAIN tally |->
        IF k \in UpdateMatches(table, key_id, user_id) THEN tally[k] + 1 ELSE tally[k]]

\* DatabaseManager.decrement_calls(key_id, user_id), called with both arguments
decrement_calls(key_id, user_id) ==
    /\ \A k \in UpdateMatches(user_api_keys, key_id, user_id) :
            user_api_keys[k].calls_remaining > -MaxOverdraft
    /\ user_api_keys' = DecrementRows(user_api_keys, key_id, user_id)
    /\ dec_ok' = CountOk(dec_ok, user_api_keys, key_id, user_id)
    /\ UNCHANGED <<initial_calls, sessions, call, result>>
    /\ UNCHANGED bot_vars

\* ---------------------------------------------------------------- debate session

\* DebateSession.__init__(topic, clients_map, key_ids_map, max_rounds)
NewSession(k1, k2, max_rounds) ==
    [exists |-> TRUE,
     key_ids |-> [n \in {ai1_name, ai2_name} |-> IF n = ai1_name THEN k1 ELSE k2],
     history |-> <<>>,
     round |-> 0,
     is_running |-> FALSE,
     MAX_ROUNDS |-> max_rounds]

DebateSession_init(s, k1, k2, max_rounds) ==
    /\ ~sessions[s].exists
    /\ k1 # k2
    /\ sessions' = [sessions EXCEPT ![s] = NewSession(k1, k2, max_rounds)]
    /\ UNCHANGED <<user_api_keys, initial_calls, dec_ok, call, result>>
    /\ UNCHANGED bot_vars

\* get_system_prompt(current_ai_name): the role goes by the participant's place
\* in list(self.clients.keys()), the task by the round counter
AffirmativeRole == "holovnyi zakhysnyk (pozytyvna storona)"
OpposingRole == "holovnyi oponent (nehatyvna storona)"

RoundTask(sess) ==
    IF sess.round = 1 THEN "opening"
    ELSE IF sess.round < sess.MAX_ROUNDS THEN "rebuttal"
    ELSE "closing"

get_system_prompt_ByTurn(sess, current_ai_name) ==
    [role |-> IF (current_ai_name = ai1_name) <=> (sess.round % 2 = 1)
              THEN AffirmativeRole ELSE OpposingRole,
     opponent_name |-> IF current_ai_name = ai1_name THEN ai2_name ELSE ai1_name,
     task |-> RoundTask(sess)]

get_system_prompt(sess, current_ai_name) ==
    [role |-> IF current_ai_name = ai1_name THEN AffirmativeRole ELSE OpposingRole,
     opponent_name |-> IF current_ai_name = ai1_name THEN ai2_name ELSE ai1_name,
     task |-> RoundTask(sess)]

\* round_data.items(): the pairs of a history record in insertion order
RoundItems(round_data) ==
    [i \in 1..Len(client_names) |-> <<client_names[i], round_data[client_names[i]]>>]

\* get_full_history(): "Дебати ще не розпочато." for an empty history, else one
\* block "--- РАУНД n | Хід AI 'name' ---" + response per round and participant
NotStarted == <<"Debaty shche ne rozpochato.">>

HistoryBlock(history, j) ==
    LET round_num == (j + Len(client_names) - 1) \div Len(client_names)
        item == RoundItems(history[round_num])[((j - 1) % Len(client_names)) + 1]
    IN [round_num |-> round_num, name |-> item[1], response |-> item[2]]

get_full_history(history) ==
    IF history = <<>> THEN NotStarted
    ELSE [j \in 1..(Len(history) * Len(client_names)) |-> HistoryBlock(history, j)]

\* self.clients[name].generate_response(system_prompt=..., debate_history=..., topic=...)
GenerateTask_NoHistoryForSecond(sess, name, debate_history) ==
    [created |-> TRUE,
     name |-> name,
     system_prompt |-> get_system_prompt(sess, name),
     debate_history |-> IF name = ai1_name THEN debate_history ELSE NoResponse]

GenerateTask(sess, name, debate_history) ==
    [created |-> TRUE,
     name |-> name,
     system_prompt |-> get_system_prompt(sess, name),
     debate_history |-> debate_history]

\* next_round, up to the await: the refusal of a finished debate, or
\* is_running/round are set and both generate_response tasks are created.
\* A caller awaits one next_round of a session before it calls the next.
RoundIsOver_OffByOne(sess) == sess.round > sess.MAX_ROUNDS

RoundIsOver(sess) == sess.round >= sess.MAX_ROUNDS

FinishedResult == [kind |-> "returned", first |-> TRUE, why |-> "finished"]

next_round_begin(s) ==
    /\ sessions[s].exists
    /\ call[s].pc = "idle"
    /\ IF RoundIsOver(sessions[s])
       THEN /\ result' = [result EXCEPT ![s] = FinishedResult]
            /\ UNCHANGED <<sessions, call>>
       ELSE LET started == [sessions[s] EXCEPT !.is_running = TRUE, !.round = @ + 1]
                debate_history == get_full_history(started.history)
            IN
            /\ sessions' = [sessions EXCEPT ![s] = started]
            /\ call' = [call EXCEPT ![s] =
                          [pc |-> "gather", response1 |-> NoResponse,
                           response2 |-> NoResponse,
                           debate_history |-> debate_history,
                           task1 |-> GenerateTask(started, ai1_name, debate_history),
                           task2 |-> GenerateTask(started, ai2_name, debate_history)]]
            /\ result' = [result EXCEPT ![s] = [kind |-> "pending"]]
    /\ UNCHANGED <<user_api_keys, initial_calls, dec_ok>>
    /\ UNCHANGED bot_vars

\* one of the two gathered generate_response tasks returns its string
RecordResponse(c, name, response) ==
    IF name = ai1_name THEN [c EXCEPT !.response1 = response]
                       ELSE [c EXCEPT !.response2 = response]

ResponseOf(c, name) == IF name = ai1_name THEN c.response1 ELSE c.response2

generate_response_returns(s, name, response) ==
    /\ call[s].pc = "gather"
    /\ ResponseOf(call[s], name) = NoResponse
    /\ call' = [call EXCEPT ![s] = RecordResponse(call[s], name, response)]
    /\ UNCHANGED <<user_api_keys, initial_calls, dec_ok, sessions, result>>
    /\ UNCHANGED bot_vars

\* Python binds the arguments of DB_MANAGER.decrement_calls(...) to the
\* parameters (key_id, user_id); a call with too few arguments raises TypeError
BindDecrementCall(args) ==
    IF Len(args) = Len(decrement_calls_params)
    THEN [raised |-> FALSE, key_id |-> args[1], user_id |-> args[2]]
    ELSE [raised |-> TRUE]

DecrementArgs_FirstCallBound(sess, name) ==
    IF name = ai1_name
    THEN <<sess.key_ids[name], OwnerOf[sess.key_ids[name]]>>
    ELSE <<sess.key_ids[name]>>

\* the argument list next_round passes: DB_MANAGER.decrement_calls(self.key_ids[name])
DecrementArgs(sess, name) == <<sess.key_ids[name]>>

\* self.history.append({ai1_name: response1, ai2_name: response2})
RoundData(response1, response2) ==
    [n \in {ai1_name, ai2_name} |-> IF n = ai1_name THEN response1 ELSE response2]

CommitRound(sess, response1, response2) ==
    [sess EXCEPT !.history = Append(@, RoundData(response1, response2)),
                 !.is_running = FALSE]

RollBack_KeepRound(sess) == [sess EXCEPT !.is_running = FALSE]

\* self.is_running = False; self.round -= 1
RollBack(sess) == [sess EXCEPT !.is_running = FALSE, !.round = @ - 1]

BothReturned_FirstCompleted(c) == c.response1 # NoResponse \/ c.response2 # NoResponse

\* await asyncio.gather(task1, task2): resumes when both tasks have returned
BothReturned(c) == c.response1 # NoResponse /\ c.response2 # NoResponse

\* next_round after the await: both responses are in
next_round_join(s) ==
    LET sess == sessions[s]
        r1 == call[s].response1
        r2 == call[s].response2
        c1 == BindDecrementCall(DecrementArgs(sess, ai1_name))
        c2 == BindDecrementCall(DecrementArgs(sess, ai2_name))
        t1 == DecrementRows(user_api_keys, c1.key_id, c1.user_id)
        ok1 == DecrementReturn(user_api_keys, c1.key_id, c1.user_id)
        t2 == DecrementRows(t1, c2.key_id, c2.user_id)
        ok2 == DecrementReturn(t1, c2.key_id, c2.user_id)
        n1 == CountOk(dec_ok, user_api_keys, c1.key_id, c1.user_id)
        n2 == CountOk(n1, t1, c2.key_id, c2.user_id)
    IN
    /\ call[s].pc = "gather"
    /\ BothReturned(call[s])
    /\ call' = [call EXCEPT ![s] = IdleCall]
    /\ IF HasErrorMarker(r1) \/ HasErrorMarker(r2)
       THEN /\ sessions' = [sessions EXCEPT ![s] = RollBack(sess)]
            /\ result' = [result EXCEPT ![s] =
                  [kind |-> "returned", first |-> FALSE, why |-> "generation_error"]]
            /\ UNCHANGED <<user_api_keys, dec_ok>>
       ELSE IF c1.raised
       THEN \* TypeError leaves next_round at line 150
            /\ result' = [result EXCEPT ![s] = [kind |-> "raised"]]
            /\ UNCHANGED <<sessions, user_api_keys, dec_ok>>
       ELSE IF c2.raised
       THEN /\ result' = [result EXCEPT ![s] = [kind |-> "raised"]]
            /\ user_api_keys' = t1
            /\ dec_ok' = n1
            /\ UNCHANGED sessions
       ELSE IF ~ok1 \/ ~ok2
       THEN /\ sessions' = [sessions EXCEPT ![s] = RollBack(sess)]
            /\ result' = [result EXCEPT ![s] =
                  [kind |-> "returned", first |-> FALSE, why |-> "decrement_failed"]]
            /\ user_api_keys' = t2
            /\ dec_ok' = n2
       ELSE /\ sessions' = [sessions EXCEPT ![s] = CommitRound(sess, r1, r2)]
            /\ result' = [result EXCEPT ![s] =
                  [kind |-> "returned", first |-> RoundIsOver(sess), why |-> "committed"]]
            /\ user_api_keys' = t2
            /\ dec_ok' = n2
    /\ UNCHANGED initial_calls
    /\ UNCHANGED bot_vars

\* ---------------------------------------------------------------- encryption

\* a credential is a string: a sequence of code points ("A", "é", "€")
CodePoints == {65, 233, 8364}

RECURSIVE StringsOfLen(_)
StringsOfLen(n) ==
    IF n = 0 THEN {<<>>}
    ELSE {Append(str, cp) : str \in StringsOfLen(n - 1), cp \in CodePoints}

\* the non-empty credentials given to encrypt_key
Credentials == UNION {StringsOfLen(n) : n \in 1..MaxKeyLen}

\* str.encode(): the UTF-8 bytes of one code point (below U+10000)
Utf8Bytes(cp) ==
    IF cp < 128 THEN <<cp>>
    ELSE IF cp < 2048 THEN <<192 + (cp \div 64), 128 + (cp % 64)>>
    ELSE <<224 + (cp \div 4096), 128 + ((cp \div 64) % 64), 128 + (cp % 64)>>

RECURSIVE str_encode(_)
str_encode(str) ==
    IF str = <<>> THEN <<>>
    ELSE Utf8Bytes(Head(str)) \o str_encode(Tail(str))

RECURSIVE bytes_decode_Latin1(_)
bytes_decode_Latin1(bytes) ==
    IF bytes = <<>> THEN <<>>
    ELSE <<Head(bytes)>> \o bytes_decode_Latin1(Tail(bytes))

\* bytes.decode(): UTF-8, the lead byte gives the length of the sequence
RECURSIVE bytes_decode(_)
bytes_decode(bytes) ==
    IF bytes = <<>> THEN <<>>
    ELSE IF bytes[1] < 128
    THEN <<bytes[1]>> \o bytes_decode(SubSeq(bytes, 2, Len(bytes)))
    ELSE IF bytes[1] < 224
    THEN <<(bytes[1] - 192) * 64 + (bytes[2] - 128)>>
            \o bytes_decode(SubSeq(bytes, 3, Len(bytes)))
    ELSE <<(bytes[1] - 224) * 4096 + (bytes[2] - 128) * 64 + (bytes[3] - 128)>>
            \o bytes_decode(SubSeq(bytes, 4, Len(bytes)))

\* get_encryption_key(): a 44-character value is used as the Fernet key as it
\* is, any other value is hashed (sha256) and base64-encoded into one
get_encryption_key(key_string) ==
    IF key_string.length = FernetKeyLen
    THEN [derived |-> "as given", from |-> key_string.text]
    ELSE [derived |-> "sha256", from |-> key_string.text]

\* Fernet(key).encrypt(data) and Fernet(key).decrypt(token): a token opens
\* under the key that made it and under no other (InvalidToken)
Fernet_encrypt(key, data) == [fernet_key |-> key, data |-> data]

Fernet_decrypt(key, token) ==
    IF token.fernet_key = key THEN [raised |-> FALSE, data |-> token.data]
                              ELSE [raised |-> TRUE]

encrypt_key(key_string, api_key) ==
    Fernet_encrypt(get_encryption_key(key_string), str_encode(api_key))

decrypt_key(key_string, encrypted_key) ==
    LET decrypted == Fernet_decrypt(get_encryption_key(key_string), encrypted_key) IN
    IF decrypted.raised THEN [raised |-> TRUE]
    ELSE [raised |-> FALSE, value |-> bytes_decode(decrypted.data)]

\* encrypted = encrypt_key(c)
encrypt_key_call(api_key) ==
    /\ crypto.pc = "start"
    /\ crypto' = [pc |-> "encrypted", api_key |-> api_key,
                  encrypted |-> encrypt_key(ENCRYPTION_KEY, api_key)]
    /\ UNCHANGED <<user_api_keys, session_vars, chat_vars, using_postgres, ENCRYPTION_KEY,
                   user_profiles, active_sessions, reply>>

\* decrypted = decrypt_key(encrypted)
decrypt_key_call ==
    /\ crypto.pc = "encrypted"
    /\ crypto' = [pc |-> "decrypted", api_key |-> crypto.api_key,
                  encrypted |-> crypto.encrypted,
                  decrypted |-> decrypt_key(ENCRYPTION_KEY, crypto.encrypted)]
    /\ UNCHANGED <<user_api_keys, session_vars, chat_vars, using_postgres, ENCRYPTION_KEY,
                   user_profiles, active_sessions, reply>>

\* ---------------------------------------------------------------- key store, whole rows

Aliases == {"Work", "Home"}
AVAILABLE_SERVICES == {"gemini", "groq", "claude", "deepseek"}
AI_CLIENTS_MAP_NoGemini == {"groq", "claude", "deepseek"}
AI_CLIENTS_MAP == {"groq", "gemini", "claude", "deepseek"}
\* the services the explored add_api_key calls are given, and the credential
\* of each user ("A", "€")
SomeServices == {"groq", "gemini"}
ApiKeyOf == [u \in UserIds |-> IF u = 10 THEN <<65>> ELSE <<8364>>]
\* quotas a user might want a key to start with; add_api_key has no parameter
\* for one and the dialog never asks
QuotaChoices == {1, DefaultCalls}

StatementRuns_Always(pg) == TRUE

\* cursor.execute(sql_with_%s_placeholders, params): psycopg2 runs it, sqlite3
\* raises OperationalError (near "%": syntax error); only get_user_profile
\* goes through _execute_query
StatementRuns(pg) == pg

RowConflicts_Never(table, owner_id, alias) == FALSE

\* UNIQUE(owner_id, alias) ... ON CONFLICT (owner_id, alias) DO NOTHING
RowConflicts(table, owner_id, alias) ==
    \E k \in DOMAIN table : table[k].owner_id = owner_id /\ table[k].alias = alias

\* the INSERT of add_api_key: OperationalError on SQLite, no row on a conflict,
\* ForeignKeyViolation when owner_id has no row in user_profiles, else a row
InsertOutcome(table, profiles, pg, owner_id, alias) ==
    IF ~StatementRuns(pg) THEN "raised"
    ELSE IF RowConflicts(table, owner_id, alias) THEN "nothing"
    ELSE IF ~profiles[owner_id].exists THEN "raised"
    ELSE "inserted"

\* the inserted row: calls_remaining and is_active take their defaults; ids
\* and created_at grow with the insertions
NewRow(owner_id, encrypted_key, service, alias) ==
    [owner_id |-> owner_id, api_key |-> encrypted_key, service |-> service,
     calls_remaining |-> DefaultCalls, is_active |-> TRUE, alias |-> alias]

\* DatabaseManager.add_api_key(owner_id, service, api_key, alias)
add_api_key(owner_id, service, api_key, alias) ==
    LET outcome == InsertOutcome(user_api_keys, user_profiles, using_postgres,
                                 owner_id, alias)
        encrypted_key == encrypt_key(ENCRYPTION_KEY, api_key)
    IN
    /\ outcome = "inserted" => Len(user_api_keys) < MaxRows
    /\ user_api_keys' =
          IF outcome = "inserted"
          THEN Append(user_api_keys, NewRow(owner_id, encrypted_key, service, alias))
          ELSE user_api_keys
    /\ reply' = [op |-> "add_api_key", owner_id |-> owner_id, service |-> service,
                 alias |-> alias, ret |-> (outcome = "inserted")]
    /\ UNCHANGED <<session_vars, chat_vars, using_postgres, ENCRYPTION_KEY, user_profiles,
                   active_sessions, crypto>>

KeyInfo(table, k) ==
    [id |-> k, alias |-> table[k].alias, service |-> table[k].service,
     calls_remaining |-> table[k].calls_remaining, is_active |-> table[k].is_active]

\* SELECT ... WHERE owner_id = %s ORDER BY created_at DESC: the owner's rows,
\* the newest first
RECURSIVE SelectKeys(_, _, _)
SelectKeys(table, user_id, k) ==
    IF k = 0 THEN <<>>
    ELSE IF table[k].owner_id = user_id
    THEN <<KeyInfo(table, k)>> \o SelectKeys(table, user_id, k - 1)
    ELSE SelectKeys(table, user_id, k - 1)

\* what get_user_api_keys returns: [] when the statement raises
UserApiKeys(table, pg, user_id) ==
    IF StatementRuns(pg) THEN SelectKeys(table, user_id, Len(table)) ELSE <<>>

\* DatabaseManager.get_user_api_keys(user_id)
get_user_api_keys(user_id) ==
    /\ reply' = [op |-> "get_user_api_keys", user_id |-> user_id,
                 ret |-> UserApiKeys(user_api_keys, using_postgres, user_id)]
    /\ UNCHANGED <<user_api_keys, session_vars, chat_vars, using_postgres, ENCRYPTION_KEY,
                   user_profiles, active_sessions, crypto>>

Absent == [found |-> FALSE]

KeyRows_ById(table, key_id, user_id) == {k \in DOMAIN table : k = key_id}

\* SELECT api_key, service FROM user_api_keys WHERE id = %s AND owner_id = %s
KeyRows(table, key_id, user_id) ==
    {k \in DOMAIN table : k = key_id /\ table[k].owner_id = user_id}

\* what get_api_key_decrypted returns: (decrypted_key, service), or None when
\* no row is selected or anything raises
ApiKeyDecrypted(table, pg, key_string, key_id, user_id) ==
    IF ~StatementRuns(pg) THEN Absent
    ELSE IF KeyRows(table, key_id, user_id) = {} THEN Absent
    ELSE LET row == table[CHOOSE k \in KeyRows(table, key_id, user_id) : TRUE]
             decrypted_key == decrypt_key(key_string, row.api_key)
         IN IF decrypted_key.raised THEN Absent
            ELSE [found |-> TRUE, decrypted_key |-> decrypted_key.value,
                  service |-> row.service]

\* DatabaseManager.get_api_key_decrypted(key_id, user_id)
get_api_key_decrypted(key_id, user_id) ==
    /\ reply' = [op |-> "get_api_key_decrypted", key_id |-> key_id, user_id |-> user_id,
                 ret |-> ApiKeyDecrypted(user_api_keys, using_postgres, ENCRYPTION_KEY,
                                         key_id, user_id)]
    /\ UNCHANGED <<user_api_keys, session_vars, chat_vars, using_postgres, ENCRYPTION_KEY,
                   user_profiles, active_sessions, crypto>>

\* UPDATE user_profiles SET active_key_id = %s WHERE user_id = %s;
\* return cursor.rowcount > 0
ProfileMatches(profiles, pg, user_id) == StatementRuns(pg) /\ profiles[user_id].exists

\* DatabaseManager.set_active_key(user_id, key_id)
set_active_key(user_id, key_id) ==
    /\ user_profiles' =
          IF ProfileMatches(user_profiles, using_postgres, user_id)
          THEN [user_profiles EXCEPT ![user_id].active_key_id = key_id]
          ELSE user_profiles
    /\ reply' = [op |-> "set_active_key", user_id |-> user_id, key_id |-> key_id,
                 ret |-> ProfileMatches(user_profiles, using_postgres, user_id)]
    /\ UNCHANGED <<user_api_keys, session_vars, chat_vars, using_postgres, ENCRYPTION_KEY,
                   active_sessions, crypto>>

\* what get_active_key_id returns; None is written 0 (`if not active_key_id`
\* takes the two alike)
ActiveKeyId(profiles, pg, user_id) ==
    IF ProfileMatches(profiles, pg, user_id) THEN profiles[user_id].active_key_id ELSE 0

\* DatabaseManager.get_active_key_id(user_id)
get_active_key_id(user_id) ==
    /\ reply' = [op |-> "get_active_key_id", user_id |-> user_id,
                 ret |-> ActiveKeyId(user_profiles, using_postgres, user_id)]
    /\ UNCHANGED <<user_api_keys, session_vars, chat_vars, using_postgres, ENCRYPTION_KEY,
                   user_profiles, active_sessions, crypto>>

\* DatabaseManager.decrement_calls(key_id, user_id) on either backend, with
\* what it returns: rowcount > 0, or False when the statement raises
decrement_calls_returns(key_id, user_id) ==
    LET runs == StatementRuns(using_postgres) IN
    /\ runs => \A k \in UpdateMatches(user_api_keys, key_id, user_id) :
                    user_api_keys[k].calls_remaining > -MaxOverdraft
    /\ user_api_keys' =
          IF runs THEN DecrementRows(user_api_keys, key_id, user_id) ELSE user_api_keys
    /\ reply' = [op |-> "decrement_calls", key_id |-> key_id, user_id |-> user_id,
                 ret |-> runs /\ DecrementReturn(user_api_keys, key_id, user_id)]
    /\ UNCHANGED <<session_vars, chat_vars, using_postgres, ENCRYPTION_KEY, user_profiles,
                   active_sessions, crypto>>

\* ---------------------------------------------------------------- controller

Topics == {<<>>, <<"/", "help">>, <<"Topic">>}

\* topic.startswith('/') or not topic
NotATopic(topic) == topic = <<>> \/ topic[1] = "/"

\* the parameters of DebateSession.__init__ that have no default, and the
\* keyword arguments handle_question passes
DebateSession_required == {"topic", "clients_map", "key_ids_map"}
handle_question_kwargs == {"topic", "clients_map", "max_rounds"}

\* a call that leaves a required parameter without an argument raises TypeError
ConstructorRaises(kwargs) == \E param \in DebateSession_required : param \notin kwargs

\* the loop of handle_question over user_keys: the keys with calls left whose
\* credential and client class are found, in the order of the listing
RECURSIVE UsableKeys(_, _, _, _)
UsableKeys(user_keys, table, key_string, user_id) ==
    IF user_keys = <<>> THEN <<>>
    ELSE LET key_info == Head(user_keys)
             rest == UsableKeys(Tail(user_keys), table, key_string, user_id)
             decrypted == ApiKeyDecrypted(table, TRUE, key_string, key_info.id, user_id)
         IN IF key_info.calls_remaining <= 0 THEN rest
            ELSE IF decrypted.found /\ decrypted.service \in AI_CLIENTS_MAP
            THEN <<key_info>> \o rest
            ELSE rest

\* the session handle_question would register: the clients and key ids by
\* alias, in the order of the listing
ControllerSession(usable) ==
    [exists |-> TRUE,
     clients |-> [i \in 1..Len(usable) |-> usable[i].alias],
     key_ids |-> [i \in 1..Len(usable) |-> usable[i].id],
     history |-> <<>>,
     round |-> 0,
     is_running |-> FALSE,
     MAX_ROUNDS |-> ControllerMaxRounds]

\* how handle_question ends for a topic message of user_id
QuestionOutcome(table, profiles, pg, key_string, sessions_map, user_id, topic) ==
    LET user_keys == UserApiKeys(table, pg, user_id)
        usable == UsableKeys(user_keys, table, key_string, user_id)
    IN
    IF NotATopic(topic) THEN "ignored"
    ELSE IF user_keys = <<>> THEN "need_keys"
    ELSE IF ActiveKeyId(profiles, pg, user_id) = 0 THEN "choose_active_key"
    ELSE IF Len(usable) < 1 THEN "no_usable_keys"
    ELSE IF sessions_map[user_id].exists THEN "wait"
    ELSE IF ConstructorRaises(handle_question_kwargs) THEN "TypeError"
    ELSE "session_registered"

\* session = DebateSession(topic=topic, clients_map=clients, max_rounds=3):
\* the keyword arguments, the participants by alias in the order of the
\* listing, and the round count of the call
DebateSession_call(usable) ==
    [kwargs |-> handle_question_kwargs,
     clients_map |-> [i \in 1..Len(usable) |-> usable[i].alias],
     max_rounds |-> ControllerMaxRounds]

\* the outcomes with which handle_question comes to the constructor call
ReachesConstructor == {"TypeError", "session_registered"}

\* the exceptions the handlers let escape
HandlerExceptions == {"TypeError", "AttributeError", "IndexError"}

\* where an escaped exception ends: bot.main() registers error_handler on the
\* polling application; webhook.py serves the application of main_bot_setup,
\* which has no error handler, inside the try of webhook_handler
RunModes == {"polling", "webhook"}

NoMessage == "nothing"

\* error_handler(update, context): a Conflict error is dropped, any other is
\* printed with its traceback; neither branch sends a message
error_handler(error) ==
    [printed |-> IF error = "Conflict" THEN "conflict_notice" ELSE "traceback",
     sent |-> NoMessage]

\* webhook_handler: `except Exception as e:` logs and returns the status
\* {"status": "error"}; nothing goes to the chat
webhook_handler(error) ==
    [printed |-> "logger.error", status |-> "error", sent |-> NoMessage]

\* what the user is sent for an update: the message of the branch that
\* handled it, or what the top level sends for an escaped exception
Answer(mode, outcome) ==
    IF outcome \in HandlerExceptions
    THEN IF mode = "polling" THEN error_handler(outcome).sent
         ELSE webhook_handler(outcome).sent
    ELSE IF outcome = "ignored" THEN NoMessage
    ELSE outcome

\* handle_question(update, context); after the registration of a session
\* run_debate_round would call session.run_next_round(), which DebateSession
\* does not define
handle_question(user_id, topic) ==
    LET outcome == QuestionOutcome(user_api_keys, user_profiles, using_postgres,
                                   ENCRYPTION_KEY, active_sessions, user_id, topic)
        usable == UsableKeys(UserApiKeys(user_api_keys, using_postgres, user_id),
                             user_api_keys, ENCRYPTION_KEY, user_id)
    IN
    /\ active_sessions' =
          IF outcome = "session_registered"
          THEN [active_sessions EXCEPT ![user_id] = ControllerSession(usable)]
          ELSE active_sessions
    /\ \E mode \in RunModes :
          LET escaped == IF outcome = "session_registered" THEN "AttributeError"
                         ELSE outcome
          IN reply' = [op |-> "handle_question", user_id |-> user_id,
                       constructs |-> outcome \in ReachesConstructor,
                       session_call |-> DebateSession_call(usable),
                       outcome |-> escaped,
                       answer |-> Answer(mode, escaped)]
    /\ UNCHANGED <<user_api_keys, session_vars, chat_vars, using_postgres, ENCRYPTION_KEY,
                   user_profiles, crypto>>

CallbackData == {"debate_next_round", "debate_final_result"}

\* client.generate_response(system_prompt="Ти - незалежний модератор ...",
\*     debate_history=session.get_full_history(), topic=final_prompt)
FinalConclusionCall(session) ==
    [name |-> session.clients[1],
     system_prompt |-> "nezalezhnyi moderator",
     debate_history |-> get_full_history(session.history),
     topic |-> "final_prompt"]

\* handle_debate_callback(update, context): the generation calls it issues and
\* how it ends. The final message reads session.history[-2], an IndexError on
\* a history of fewer than two records, which leaves the session in place.
CallbackOutcome(session, data) ==
    IF ~session.exists
    THEN [generate_calls |-> <<>>, outcome |-> "session_not_found"]
    ELSE IF data = "debate_next_round"
    THEN [generate_calls |-> <<>>, outcome |-> "AttributeError"]
    ELSE IF Len(session.history) < 2
    THEN [generate_calls |-> <<FinalConclusionCall(session)>>, outcome |-> "IndexError"]
    ELSE [generate_calls |-> <<FinalConclusionCall(session)>>, outcome |-> "final_sent"]

handle_debate_callback(user_id, data) ==
    LET done == CallbackOutcome(active_sessions[user_id], data) IN
    /\ active_sessions' =
          IF done.outcome = "final_sent"
          THEN [active_sessions EXCEPT ![user_id] = NoSession]
          ELSE active_sessions
    /\ \E mode \in RunModes :
          reply' = [op |-> "handle_debate_callback", user_id |-> user_id, data |-> data,
                    generate_calls |-> done.generate_calls, outcome |-> done.outcome,
                    answer |-> Answer(mode, done.outcome)]
    /\ UNCHANGED <<user_api_keys, session_vars, chat_vars, using_postgres, ENCRYPTION_KEY,
                   user_profiles, crypto>>

\* ---------------------------------------------------------------- model clients

Vendors == AI_CLIENTS_MAP
Failures == {"invalid_credential", "rate_limit", "network", "malformed_response"}

\* the attributes of the SDKs' exception classes: groq and anthropic share one
\* layout (APIError: message, request, body; APIStatusError adds response and
\* status_code; APIConnectionError adds none)
ApiErrorAttrs == {"message", "request", "body"}
ApiStatusErrorAttrs == ApiErrorAttrs \cup {"response", "status_code"}

\* what the vendor call inside generate_response raises on a failure: the
\* classes it is an instance of and the attributes it carries
SdkException(vendor, failure) ==
    IF vendor \in {"groq", "claude"}
    THEN IF failure \in {"invalid_credential", "rate_limit"}
         THEN [isa |-> {"APIStatusError", "APIError", "Exception"},
               attrs |-> ApiStatusErrorAttrs]
         ELSE IF failure = "network"
         THEN [isa |-> {"APIConnectionError", "APIError", "Exception"},
               attrs |-> ApiErrorAttrs]
         ELSE [isa |-> {"IndexError", "Exception"}, attrs |-> {}]
    ELSE IF vendor = "gemini"
    THEN IF failure = "malformed_response"
         THEN [isa |-> {"ValueError", "Exception"}, attrs |-> {}]
         ELSE [isa |-> {"GoogleAPIError", "Exception"}, attrs |-> {"message"}]
    ELSE IF failure \in {"invalid_credential", "rate_limit"}
         THEN [isa |-> {"HTTPStatusError", "Exception"}, attrs |-> {"request", "response"}]
         ELSE IF failure = "network"
         THEN [isa |-> {"ConnectError", "Exception"}, attrs |-> {"request"}]
         ELSE [isa |-> {"KeyError", "Exception"}, attrs |-> {}]

\* `if not genai: return "Помилка: Gemini SDK не встановлено."`
GeminiSdkMissing == <<"Pomylka", ":", "Gemini", "SDK", "ne", "vstanovleno">>

ExceptClauses_Plain(vendor) ==
    << [catches |-> "Exception", reads |-> {}, text |-> <<"generation", "failed">>] >>

\* the except clauses of each generate_response, in order: the class caught,
\* the attributes of e the returned f-string reads, and the string
ExceptClauses(vendor) ==
    IF vendor = "groq"
    THEN << [catches |-> "APIError", reads |-> {"code"},
             text |-> <<"Pomylka", "generatsii", "(GroqAPIError)">>],
            [catches |-> "Exception", reads |-> {},
             text |-> <<"Pomylka", "generatsii", "(Nevidoma pomylka Groq)">>] >>
    ELSE IF vendor = "gemini"
    THEN << [catches |-> "GeminiAPIError", reads |-> {},
             text |-> <<"Pomylka", "generatsii", "(Gemini API Error)">>],
            [catches |-> "Exception", reads |-> {},
             text |-> <<"Pomylka", "generatsii", "(Gemini Error)">>] >>
    ELSE IF vendor = "claude"
    THEN << [catches |-> "APIError", reads |-> {"status_code"},
             text |-> <<"Pomylka", "generatsii", "(Claude API Error)">>],
            [catches |-> "Exception", reads |-> {},
             text |-> <<"Pomylka", "generatsii", "(Claude Error)">>] >>
    ELSE << [catches |-> "HTTPStatusError", reads |-> {"response"},
             text |-> <<"Pomylka", "HTTP", "vid", "DeepSeek">>],
            [catches |-> "Exception", reads |-> {},
             text |-> <<"Pomylka", "generatsii", "(DeepSeek Error)">>] >>

\* try/except: the first clause whose class the exception is an instance of
\* handles it; reading an attribute the exception does not carry raises
\* AttributeError inside the handler, which no later clause catches
RECURSIVE Handle(_, _)
Handle(exception, clauses) ==
    IF clauses = <<>> THEN [kind |-> "raised", exception |-> "unhandled"]
    ELSE IF Head(clauses).catches \in exception.isa
    THEN IF Head(clauses).reads \subseteq exception.attrs
         THEN [kind |-> "returned", text |-> Head(clauses).text]
         ELSE [kind |-> "raised", exception |-> "AttributeError"]
    ELSE Handle(exception, Tail(clauses))

\* whether the groq package's APIError carries `code` is open: both layouts
\* of the class are explored
SdkAttrChoices(vendor, exception) ==
    IF vendor = "groq" /\ "APIError" \in exception.isa
    THEN {exception.attrs, exception.attrs \cup {"code"}}
    ELSE {exception.attrs}

\* BaseAI.generate_response(system_prompt, debate_history, topic) of a vendor's
\* client, when the vendor call succeeds (failure "none") or fails
generate_response(vendor, failure) ==
    /\ failure = "sdk_missing" => vendor = "gemini"
    /\ \E attrs \in SdkAttrChoices(vendor, SdkException(vendor, failure)) :
          reply' = [op |-> "generate_response", vendor |-> vendor, failure |-> failure,
                    ret |-> IF failure = "none"
                            THEN [kind |-> "returned", text |-> GeneratedText(vendor)]
                            ELSE IF failure = "sdk_missing"
                            THEN [kind |-> "returned", text |-> GeminiSdkMissing]
                            ELSE Handle([SdkException(vendor, failure)
                                            EXCEPT !.attrs = attrs],
                                        ExceptClauses(vendor))]
    /\ UNCHANGED <<user_api_keys, session_vars, chat_vars, using_postgres, ENCRYPTION_KEY,
                   user_profiles, active_sessions, crypto>>

\* ---------------------------------------------------------------- updates and dialogs

\* the states of the ConversationHandler of main_bot_setup
CHOOSING_ROUNDS == "CHOOSING_ROUNDS"
AWAITING_SERVICE == "AWAITING_SERVICE"
AWAITING_KEY == "AWAITING_KEY"
AWAITING_ALIAS == "AWAITING_ALIAS"
DialogStates == {CHOOSING_ROUNDS, AWAITING_SERVICE, AWAITING_KEY, AWAITING_ALIAS}

\* the buttons of choose_rounds_command, and the ones pressed in the explored runs
ROUND_OPTIONS == {2, 3, 5, 10}
SomeRoundOptions == {2, 5}

\* str(r) of f"rounds_{r}" and int(text): decimal numerals of 1..10
Numerals == <<"1", "2", "3", "4", "5", "6", "7", "8", "9", "10">>
str(r) == Numerals[r]

\* int(text.strip()) of a text given as its words: the number a single numeral
\* stands for, ValueError for anything else
int(text) ==
    IF Len(text) = 1 /\ \E n \in DOMAIN Numerals : Numerals[n] = text[1]
    THEN [raised |-> FALSE, value |-> CHOOSE n \in DOMAIN Numerals : Numerals[n] = text[1]]
    ELSE [raised |-> TRUE, value |-> 0]

\* an update of a user: a command, a text message, or a pressed button with its
\* callback data split at "_"
Command(name) == [kind |-> "command", data |-> <<name>>]
Text(text) == [kind |-> "text", data |-> text]
CallbackQuery(data) == [kind |-> "callback", data |-> data]

SomeCommands == {"start", "rounds", "addkey", "cancel"}
SomeTexts == {<<"Topic">>, <<"1">>, <<"4">>}
SomeCallbacks ==
    {<<"rounds", str(r)>> : r \in SomeRoundOptions}
        \cup {<<"rounds", "custom">>, <<"service", "groq">>, <<"menu", "ask">>,
              <<"select", "key", "1">>, <<"debate", "final", "result">>}

\* the CommandHandlers main_bot_setup adds before the ConversationHandler
CommandsBeforeConversation ==
    {"start", "status", "help", "setup", "profile", "mykeys", "addkey"}

NoHandler == "none"

\* ConversationHandler.check_update: the entry points for a user in no dialog,
\* else the handlers of the user's state, else the fallbacks
ConversationMatch(state, update) ==
    IF state = END
    THEN IF update.kind = "command" /\ update.data[1] = "start" THEN "start"
         ELSE IF update.kind = "command" /\ update.data[1] = "rounds"
              THEN "choose_rounds_command"
         ELSE IF update.kind = "command" /\ update.data[1] = "addkey"
              THEN "addkey_command"
         ELSE IF update.kind = "callback" /\ update.data[1] = "menu"
              THEN "main_menu_callback"
         ELSE NoHandler
    ELSE IF state = CHOOSING_ROUNDS /\ update.kind = "callback" /\ update.data[1] = "rounds"
         THEN "rounds_callback_handler"
    ELSE IF state = CHOOSING_ROUNDS /\ update.kind = "text" THEN "receive_custom_rounds"
    ELSE IF state = AWAITING_SERVICE /\ update.kind = "callback"
                /\ update.data[1] = "service"
         THEN "service_callback"
    ELSE IF state = AWAITING_KEY /\ update.kind = "text" THEN "receive_api_key_input"
    ELSE IF state = AWAITING_ALIAS /\ update.kind = "text" THEN "receive_alias_input"
    ELSE IF update.kind = "command" /\ update.data[1] = "cancel" THEN "cancel_fallback"
    ELSE NoHandler

\* Application.process_update over the handlers of group 0 in the order
\* main_bot_setup added them: the first whose check_update matches handles the
\* update, and only a callback run by the ConversationHandler moves the dialog
Dispatch(state, update) ==
    IF update.kind = "command" /\ update.data[1] \in CommandsBeforeConversation
    THEN [callback |-> IF update.data[1] = "addkey" THEN "addkey_command"
                       ELSE update.data[1],
          in_conversation |-> FALSE]
    ELSE IF ConversationMatch(state, update) # NoHandler
    THEN [callback |-> ConversationMatch(state, update), in_conversation |-> TRUE]
    ELSE IF update.kind = "callback" /\ update.data[1] = "menu"
    THEN [callback |-> "main_menu_callback", in_conversation |-> FALSE]
    ELSE IF update.kind = "callback" /\ update.data[1] \in {"select", "add"}
    THEN [callback |-> "key_selection_callback", in_conversation |-> FALSE]
    ELSE IF update.kind = "callback" /\ update.data[1] = "debate"
    THEN [callback |-> "handle_debate_callback", in_conversation |-> FALSE]
    ELSE IF update.kind = "text"
    THEN [callback |-> "handle_question", in_conversation |-> FALSE]
    ELSE [callback |-> NoHandler, in_conversation |-> FALSE]

\* what a callback gives back: the state it returns, context.user_data after
\* it, the message it sends, and the exception it lets escape
Returned(state, data, message) ==
    [state |-> state, user_data |-> data, message |-> message, raised |-> "none"]
Raised(data, exception) ==
    [state |-> END, user_data |-> data, message |-> NoMessage, raised |-> exception]

\* rounds_callback_handler: choice = query.data.split('_')[1]
rounds_callback_handler(data, update) ==
    LET choice == update.data[2]
        rounds == int(<<choice>>)
    IN IF choice = "custom" THEN Returned(CHOOSING_ROUNDS, data, "enter_rounds")
       ELSE IF rounds.raised THEN Returned(CHOOSING_ROUNDS, data, "choice_error")
       ELSE Returned(END, [data EXCEPT !.rounds = rounds.value], "rounds_set")

\* receive_custom_rounds: rounds = int(text.strip()); `if rounds <= 1`
receive_custom_rounds(data, update) ==
    LET rounds == int(update.data)
    IN IF rounds.raised THEN Returned(CHOOSING_ROUNDS, data, "not_a_number")
       ELSE IF rounds.value < MinRounds THEN Returned(CHOOSING_ROUNDS, data, "more_than_one")
       ELSE Returned(END, [data EXCEPT !.rounds = rounds.value], "rounds_set")

\* service_callback: context.user_data['service_key'] = query.data.split('_')[1]
service_callback(data, update) ==
    Returned(AWAITING_KEY, [data EXCEPT !.service_key = update.data[2]], "enter_key")

\* receive_api_key_input: `if len(api_key) < 10`
receive_api_key_input(data, update) ==
    IF Len(update.data) < MinApiKeyLen THEN Returned(AWAITING_KEY, data, "key_too_short")
    ELSE Returned(AWAITING_ALIAS, [data EXCEPT !.api_key = update.data], "enter_alias")

\* fallbacks=[CommandHandler("cancel", lambda u, c: ConversationHandler.END)]:
\* the handler awaits what its callback returns, and the lambda returns the
\* int, so the await raises TypeError and the state of the dialog stays
cancel_fallback(data, update) == Raised(data, "TypeError")

\* the callbacks that touch neither the key store nor the sessions
DialogCallback(callback, data, update) ==
    CASE callback = "choose_rounds_command" -> Returned(CHOOSING_ROUNDS, data, "rounds_keyboard")
      [] callback = "addkey_command" -> Returned(AWAITING_SERVICE, data, "service_keyboard")
      [] callback = "rounds_callback_handler" -> rounds_callback_handler(data, update)
      [] callback = "receive_custom_rounds" -> receive_custom_rounds(data, update)
      [] callback = "service_callback" -> service_callback(data, update)
      [] callback = "receive_api_key_input" -> receive_api_key_input(data, update)
      [] callback = "cancel_fallback" -> cancel_fallback(data, update)
      [] callback = NoHandler -> Returned(END, data, NoMessage)
      [] OTHER -> Returned(END, data, callback)

\* receive_alias_input: len(alias) < 3 or > 100 (too_short) asks again; else
\* DB_MANAGER.add_api_key(user_id, service_key, api_key, alias), a repeated
\* alias asks again, anything else clears user_data and ends the dialog
receive_alias_input(user_id, update) ==
    LET alias == update.data[1]
        data == user_data[user_id]
        outcome == InsertOutcome(user_api_keys, user_profiles, using_postgres,
                                 user_id, alias)
        too_short == Len(update.data) < MinAliasLen \/ Len(update.data) > AliasLenLimit
    IN
    /\ ~too_short /\ outcome = "inserted" => Len(user_api_keys) < MaxRows
    /\ user_api_keys' =
          IF ~too_short /\ outcome = "inserted"
          THEN Append(user_api_keys,
                      NewRow(user_id, encrypt_key(ENCRYPTION_KEY, data.api_key),
                             data.service_key, alias))
          ELSE user_api_keys
    /\ conversations' =
          [conversations EXCEPT ![user_id] =
              IF too_short \/ outcome # "inserted" THEN AWAITING_ALIAS ELSE END]
    /\ user_data' =
          [user_data EXCEPT ![user_id] =
              IF too_short \/ outcome # "inserted" THEN data
              ELSE [data EXCEPT !.service_key = "", !.api_key = <<>>]]
    /\ reply' = [op |-> "process_update", user_id |-> user_id, update |-> update,
                 callback |-> "receive_alias_input", in_conversation |-> TRUE,
                 state |-> AWAITING_ALIAS, raised |-> "none",
                 persisted |-> ~too_short /\ outcome = "inserted",
                 answer |-> IF too_short THEN "alias_length"
                            ELSE IF outcome = "inserted" THEN "key_added"
                            ELSE "alias_exists"]
    /\ UNCHANGED <<session_vars, using_postgres, ENCRYPTION_KEY, user_profiles,
                   active_sessions, crypto>>

\* key_selection_callback: 'add_new_key' calls addkey_command(update, context),
\* whose update.message is None for a pressed button; 'select_key_<id>' calls
\* DB_MANAGER.set_active_key(user_id, key_id)
key_selection_callback(user_id, update) ==
    IF update.data[1] = "add"
    THEN /\ reply' = [op |-> "process_update", user_id |-> user_id, update |-> update,
                      callback |-> "key_selection_callback", in_conversation |-> FALSE,
                      state |-> conversations[user_id], raised |-> "AttributeError",
                      persisted |-> FALSE, answer |-> NoMessage]
         /\ UNCHANGED <<user_api_keys, session_vars, chat_vars, using_postgres,
                        ENCRYPTION_KEY, user_profiles, active_sessions, crypto>>
    ELSE set_active_key(user_id, int(<<update.data[3]>>).value)

\* the debate buttons: callback_data 'debate_next_round', 'debate_final_result'
DebateData(update) ==
    IF update.data = <<"debate", "next", "round">> THEN "debate_next_round"
    ELSE "debate_final_result"

\* application.process_update(update) for an update of user_id
process_update(user_id, update) ==
    LET state == conversations[user_id]
        found == Dispatch(state, update)
        done == DialogCallback(found.callback, user_data[user_id], update)
    IN
    CASE found.callback = "handle_question" -> handle_question(user_id, update.data)
      [] found.callback = "handle_debate_callback" ->
            handle_debate_callback(user_id, DebateData(update))
      [] found.callback = "key_selection_callback" ->
            key_selection_callback(user_id, update)
      [] found.callback = "receive_alias_input" -> receive_alias_input(user_id, update)
      [] OTHER ->
            /\ conversations' =
                  [conversations EXCEPT ![user_id] =
                      IF found.in_conversation /\ done.raised = "none"
                      THEN done.state ELSE state]
            /\ user_data' = [user_data EXCEPT ![user_id] = done.user_data]
            /\ \E mode \in RunModes :
                  reply' = [op |-> "process_update", user_id |-> user_id,
                            update |-> update, callback |-> found.callback,
                            in_conversation |-> found.in_conversation,
                            state |-> state, raised |-> done.raised,
                            persisted |-> FALSE,
                            answer |-> IF done.raised = "none" THEN done.message
                                       ELSE Answer(mode, done.raised)]
            /\ UNCHANGED <<user_api_keys, session_vars, using_postgres, ENCRYPTION_KEY,
                           user_profiles, active_sessions, crypto>>

\* ---------------------------------------------------------------- specification

Next ==
    \/ \E k \in KeyIds, u \in UserIds : decrement_calls(k, u)
    \/ \E s \in Sessions, k1, k2 \in KeyIds, m \in RoundChoices :
            DebateSession_init(s, k1, k2, m)
    \/ \E s \in Sessions : next_round_begin(s)
    \/ \E s \in Sessions, n \in {ai1_name, ai2_name} : \E r \in Responses(n) :
            generate_response_returns(s, n, r)
    \/ \E s \in Sessions : next_round_join(s)

Spec == Init /\ [][Next]_vars

\* encrypt_key and decrypt_key on their own, under each value of ENCRYPTION_KEY
InitCrypto ==
    /\ user_api_keys = <<>>
    /\ initial_calls = <<>>
    /\ dec_ok = <<>>
    /\ sessions = [s \in Sessions |-> NoSession]
    /\ call = [s \in Sessions |-> IdleCall]
    /\ result = [s \in Sessions |-> NoResult]
    /\ using_postgres = TRUE
    /\ ENCRYPTION_KEY \in EnvKeys
    /\ user_profiles = [u \in UserIds |-> ProfileRow(FALSE)]
    /\ active_sessions = NoActiveSessions
    /\ reply = NoReply
    /\ crypto = NoCrypto
    /\ conversations = NoConversations
    /\ user_data = [u \in UserIds |-> NoUserData]

NextCrypto ==
    \/ \E c \in Credentials : encrypt_key_call(c)
    \/ decrypt_key_call

CryptoSpec == InitCrypto /\ [][NextCrypto]_vars

\* the key store, the controller and the model clients: either backend, an empty user_api_keys,
\* and whatever profile rows the database already holds
InitBot ==
    /\ user_api_keys = <<>>
    /\ initial_calls = <<>>
    /\ dec_ok = <<>>
    /\ sessions = [s \in Sessions |-> NoSession]
    /\ call = [s \in Sessions |-> IdleCall]
    /\ result = [s \in Sessions |-> NoResult]
    /\ using_postgres \in BOOLEAN
    /\ ENCRYPTION_KEY = TestPassphrase
    /\ \E with_profile \in SUBSET UserIds :
          user_profiles = [u \in UserIds |-> ProfileRow(u \in with_profile)]
    /\ active_sessions = NoActiveSessions
    /\ reply = NoReply
    /\ crypto = NoCrypto
    /\ conversations = NoConversations
    /\ user_data = [u \in UserIds |-> NoUserData]

NextBot ==
    \/ \E u \in UserIds, service \in SomeServices, alias \in Aliases :
          add_api_key(u, service, ApiKeyOf[u], alias)
    \/ \E u \in UserIds : get_user_api_keys(u)
    \/ \E k \in 1..MaxRows, u \in UserIds : get_api_key_decrypted(k, u)
    \/ \E u \in UserIds, k \in 1..MaxRows : set_active_key(u, k)
    \/ \E u \in UserIds, topic \in Topics : handle_question(u, topic)
    \/ \E u \in UserIds, data \in CallbackData : handle_debate_callback(u, data)
    \/ \E vendor \in Vendors, failure \in Failures \cup {"none", "sdk_missing"} :
          generate_response(vendor, failure)

BotSpec == InitBot /\ [][NextBot]_vars

\* the rows two successful add_api_key calls of user 10 leave in user_api_keys
StoredRows(calls_remaining) ==
    <<[NewRow(10, encrypt_key(TestPassphrase, ApiKeyOf[10]), "groq", "Work")
          EXCEPT !.calls_remaining = calls_remaining],
      [NewRow(10, encrypt_key(TestPassphrase, ApiKeyOf[10]), "gemini", "Home")
          EXCEPT !.calls_remaining = calls_remaining]>>

\* the application serving the updates of two users: PostgreSQL, two stored
\* keys of user 10, nobody in a dialog
InitChat ==
    /\ user_api_keys = StoredRows(DefaultCalls)
    /\ initial_calls = <<>>
    /\ dec_ok = <<>>
    /\ sessions = [s \in Sessions |-> NoSession]
    /\ call = [s \in Sessions |-> IdleCall]
    /\ result = [s \in Sessions |-> NoResult]
    /\ using_postgres = TRUE
    /\ ENCRYPTION_KEY = TestPassphrase
    /\ \E with_profile \in SUBSET UserIds :
          /\ 10 \in with_profile
          /\ user_profiles = [u \in UserIds |-> ProfileRow(u \in with_profile)]
    /\ active_sessions = NoActiveSessions
    /\ reply = NoReply
    /\ crypto = NoCrypto
    /\ conversations = NoConversations
    /\ user_data = [u \in UserIds |-> NoUserData]

NextChat ==
    \/ \E u \in UserIds, name \in SomeCommands : process_update(u, Command(name))
    \/ \E u \in UserIds, text \in SomeTexts : process_update(u, Text(text))
    \/ \E u \in UserIds, data \in SomeCallbacks : process_update(u, CallbackQuery(data))

ChatSpec == InitChat /\ [][NextChat]_vars

\* the key store on its own: PostgreSQL with two stored keys of user 10, or
\* SQLite, where no INSERT of add_api_key ever ran; the profile rows are
\* whatever get_user_profile has created
InitStore ==
    /\ using_postgres \in BOOLEAN
    /\ \E c \in 0..MaxCalls :
          user_api_keys = IF using_postgres THEN StoredRows(c) ELSE <<>>
    /\ initial_calls = <<>>
    /\ dec_ok = <<>>
    /\ sessions = [s \in Sessions |-> NoSession]
    /\ call = [s \in Sessions |-> IdleCall]
    /\ result = [s \in Sessions |-> NoResult]
    /\ ENCRYPTION_KEY = TestPassphrase
    /\ \E with_profile \in SUBSET UserIds :
          /\ using_postgres => 10 \in with_profile
          /\ user_profiles = [u \in UserIds |-> ProfileRow(u \in with_profile)]
    /\ active_sessions = NoActiveSessions
    /\ reply = NoReply
    /\ crypto = NoCrypto
    /\ conversations = NoConversations
    /\ user_data = [u \in UserIds |-> NoUserData]

NextStore ==
    \/ \E u \in UserIds, service \in SomeServices, alias \in Aliases :
          add_api_key(u, service, ApiKeyOf[u], alias)
    \/ \E u \in UserIds : get_user_api_keys(u)
    \/ \E k \in KeyIds, u \in UserIds : get_api_key_decrypted(k, u)
    \/ \E k \in KeyIds, u \in UserIds : decrement_calls_returns(k, u)
    \/ \E u \in UserIds, k \in KeyIds : set_active_key(u, k)
    \/ \E u \in UserIds : get_active_key_id(u)

StoreSpec == InitStore /\ [][NextStore]_vars

\* ---------------------------------------------------------------- properties

Remaining(k) == user_api_keys[k].calls_remaining
RemainingAfter(k) == user_api_keys'[k].calls_remaining

AtRest(s) == sessions[s].exists /\ call[s].pc = "idle"
InFlight(s) == sessions[s].exists /\ call[s].pc = "gather"

\* the step in which the next_round call of s resumes after the gather and ends
JoinStep(s) == call[s].pc = "gather" /\ call'[s].pc = "idle"

\* both participants' generate_response calls of the round in flight have returned
BothAnswered(s) == call[s].response1 # NoResponse /\ call[s].response2 # NoResponse

GenerationsSucceeded(s) ==
    /\ BothAnswered(s)
    /\ ~HasErrorMarker(call[s].response1)
    /\ ~HasErrorMarker(call[s].response2)

Committed(s) == Len(sessions'[s].history) = Len(sessions[s].history) + 1

ReturnedAfter(s, first) ==
    /\ result'[s].kind = "returned"
    /\ result'[s].first = first

\* C1: calls_remaining of a stored key never becomes negative, and once it is 0
\* a decrement_calls on the key reports failure and leaves it at 0.
C1_DecrementStopsAtZero ==
    [][\A k \in KeyIds :
          /\ RemainingAfter(k) >= 0
          /\ Remaining(k) = 0 => (RemainingAfter(k) = 0 /\ dec_ok'[k] = dec_ok[k])]_vars

\* C2: whenever no advance of a session is in flight, the length of its history
\* equals its round counter and the round counter is at most MAX_ROUNDS.
C2_HistoryLengthIsRound ==
    \A s \in Sessions :
        AtRest(s) => /\ Len(sessions[s].history) = sessions[s].round
                     /\ sessions[s].round <= sessions[s].MAX_ROUNDS

\* C3: a round whose generations succeeded but which is not committed, because a
\* quota decrement did not succeed, ends with next_round reporting failure, with
\* the round counter back at its value before the attempt and history untouched.
C3_FailedDecrementRollsBack ==
    [][\A s \in Sessions :
          (JoinStep(s) /\ GenerationsSucceeded(s) /\ ~Committed(s)) =>
              /\ ReturnedAfter(s, FALSE)
              /\ sessions'[s].round = sessions[s].round - 1
              /\ sessions'[s].history = sessions[s].history]_vars

\* C4: under every interleaving of the callers, calls_remaining of a key equals
\* its initial value minus the number of decrements that reported success, and
\* it is never below 0.
C4_AtomicConditionalDecrement ==
    \A k \in KeyIds :
        /\ Remaining(k) = initial_calls[k] - dec_ok[k]
        /\ Remaining(k) >= 0

\* C5: with a participant's key at 1 remaining call (and the other key not
\* exhausted), the first round commits and leaves that key at 0, round 1 and one
\* history record; an attempt at the next round with that key at 0 reports
\* failure and leaves round at 1 and the history at one record.
C5_QuotaOneScenario ==
    [][\A s \in Sessions : \A n \in {ai1_name, ai2_name} :
          LET key == sessions[s].key_ids[n]
              other == sessions[s].key_ids[IF n = ai1_name THEN ai2_name ELSE ai1_name]
          IN
          /\ (JoinStep(s) /\ GenerationsSucceeded(s) /\ sessions[s].round = 1
                /\ Remaining(key) = 1 /\ Remaining(other) >= 1) =>
                 /\ RemainingAfter(key) = 0
                 /\ sessions'[s].round = 1
                 /\ Len(sessions'[s].history) = 1
          /\ (JoinStep(s) /\ GenerationsSucceeded(s) /\ sessions[s].round = 2
                /\ Remaining(key) = 0) =>
                 /\ ReturnedAfter(s, FALSE)
                 /\ RemainingAfter(key) = 0
                 /\ sessions'[s].round = 1
                 /\ Len(sessions'[s].history) = 1]_vars

\* C6: an advance whose two generations succeed (keys not exhausted) appends the
\* record {P1: response1, P2: response2} to history, so that after k advances
\* history is the list of the k records in order, and it reports the session
\* finished exactly when that was round MAX_ROUNDS.
C6_AdvanceAppendsRecord ==
    [][\A s \in Sessions :
          (JoinStep(s) /\ GenerationsSucceeded(s)
             /\ \A n \in {ai1_name, ai2_name} : Remaining(sessions[s].key_ids[n]) >= 1) =>
              /\ sessions'[s].history =
                    Append(sessions[s].history,
                           RoundData(call[s].response1, call[s].response2))
              /\ Len(sessions'[s].history) = sessions'[s].round
              /\ ReturnedAfter(s, sessions'[s].round = sessions[s].MAX_ROUNDS)]_vars

\* C7: a round ends, and becomes visible in history, only once both
\* participants' generation calls have returned, whatever their order; every
\* record of history holds the responses of both participants.
C7_RoundRecordedOnlyAfterBoth ==
    [][\A s \in Sessions :
          /\ JoinStep(s) => BothAnswered(s)
          /\ sessions'[s].exists /\ sessions[s].exists
                /\ sessions'[s].history # sessions[s].history =>
                    /\ BothAnswered(s)
                    /\ sessions'[s].history =
                          Append(sessions[s].history,
                                 RoundData(call[s].response1, call[s].response2))
          /\ sessions'[s].exists =>
                \A i \in 1..Len(sessions'[s].history) :
                    /\ DOMAIN sessions'[s].history[i] = {ai1_name, ai2_name}
                    /\ \A n \in {ai1_name, ai2_name} :
                          sessions'[s].history[i][n] # NoResponse]_vars

\* P2 has answered, P1 has not: the round is in flight and not in history
C7_Witness ==
    \E s \in Sessions :
        /\ InFlight(s)
        /\ call[s].response2 # NoResponse
        /\ call[s].response1 = NoResponse
        /\ Len(sessions[s].history) < sessions[s].round

\* C9: an advance on a session at rest whose round equals MAX_ROUNDS gives the
\* "debate finished" result, starts no generation, decrements no quota and
\* leaves round, history and the running flag as they are.
C9_FinishedSessionRefusesAdvance ==
    [][\A s \in Sessions :
          (AtRest(s) /\ sessions[s].round = sessions[s].MAX_ROUNDS) =>
              /\ sessions'[s] = sessions[s]
              /\ call'[s] = call[s]
              /\ result'[s] # result[s] =>
                    /\ result'[s] = FinishedResult
                    /\ user_api_keys' = user_api_keys]_vars

\* the refusal has been given
C9_Witness ==
    \E s \in Sessions :
        /\ AtRest(s)
        /\ sessions[s].round = sessions[s].MAX_ROUNDS
        /\ result[s] = FinishedResult

\* C10: round starts at 0; a completed advance leaves it one above its value
\* before the call if the round was committed and at that value otherwise, so
\* it never decreases; the advance reports finished iff round = MAX_ROUNDS after.
C10_RoundCountsCommittedRounds ==
    [][\A s \in Sessions :
          /\ (~sessions[s].exists /\ sessions'[s].exists) => sessions'[s].round = 0
          /\ JoinStep(s) =>
                /\ sessions'[s].round =
                      (sessions[s].round - 1) + (IF Committed(s) THEN 1 ELSE 0)
                /\ result'[s].kind = "returned"
                /\ result'[s].first <=> (sessions'[s].round = sessions'[s].MAX_ROUNDS)]_vars

\* a generation of the round in flight returned a string holding the error marker
MarkerReturned(s) ==
    /\ BothAnswered(s)
    /\ HasErrorMarker(call[s].response1) \/ HasErrorMarker(call[s].response2)

\* C11: a round whose two generations succeeded, with both participants' keys
\* holding at least 1 remaining call, is committed, and in it calls_remaining of
\* each of the two participants' keys goes down by exactly 1 while every other
\* key keeps its value.
C11_RoundChargesEachKeyOnce ==
    [][\A s \in Sessions :
          LET charged == {sessions[s].key_ids[n] : n \in {ai1_name, ai2_name}} IN
          (JoinStep(s) /\ GenerationsSucceeded(s)
             /\ \A k \in charged : Remaining(k) >= 1) =>
              /\ Committed(s)
              /\ \A k \in charged : RemainingAfter(k) = Remaining(k) - 1
              /\ \A k \in KeyIds \ charged : RemainingAfter(k) = Remaining(k)]_vars

\* C12: when the response of either participant holds the error marker, the
\* round is aborted: no calls_remaining changes, history is as before, round is
\* back at its value before the attempt, is_running is cleared and next_round
\* reports failure.
C12_ErrorMarkerAbortsRound ==
    [][\A s \in Sessions :
          (JoinStep(s) /\ MarkerReturned(s)) =>
              /\ user_api_keys' = user_api_keys
              /\ dec_ok' = dec_ok
              /\ sessions'[s].history = sessions[s].history
              /\ sessions'[s].round = sessions[s].round - 1
              /\ sessions'[s].is_running = FALSE
              /\ ReturnedAfter(s, FALSE)]_vars

\* the first round of a session was aborted on the marker and rolled back to 0
C12_Witness ==
    \E s \in Sessions :
        /\ AtRest(s)
        /\ result[s].kind = "returned"
        /\ result[s].why = "generation_error"
        /\ sessions[s].round = 0
        /\ ~sessions[s].is_running

\* the blocks of a rendered history (none for the "not started" text)
RenderedRounds(rendering) ==
    IF rendering = NotStarted THEN {}
    ELSE {rendering[j].round_num : j \in 1..Len(rendering)}

\* the committed rounds 1..n of a history, each with both participants, in order
RendersCommittedRounds(rendering, history) ==
    IF history = <<>> THEN rendering = NotStarted
    ELSE /\ Len(rendering) = 2 * Len(history)
         /\ \A i \in 1..Len(history) :
               /\ rendering[2 * i - 1] =
                     [round_num |-> i, name |-> ai1_name, response |-> history[i][ai1_name]]
               /\ rendering[2 * i] =
                     [round_num |-> i, name |-> ai2_name, response |-> history[i][ai2_name]]

\* C18: while a round is in flight, the two participants' generation calls hold
\* one and the same rendering of the history as it was before the round (the
\* committed rounds in order); it holds no block of the round in flight, and it
\* stays as it is when the other participant's answer comes in.
C18_BothGetPreRoundHistory ==
    [][\A s \in Sessions :
          InFlight(s) =>
              /\ call[s].task1.created /\ call[s].task2.created
              /\ call[s].task1.debate_history = call[s].task2.debate_history
              /\ RendersCommittedRounds(call[s].task1.debate_history, sessions[s].history)
              /\ Len(sessions[s].history) < sessions[s].round
              /\ \A n \in RenderedRounds(call[s].task1.debate_history) \cup
                           RenderedRounds(call[s].task2.debate_history) :
                        n < sessions[s].round
              /\ InFlight(s)' =>
                    /\ call'[s].task1 = call[s].task1
                    /\ call'[s].task2 = call[s].task2]_vars

\* P1 has answered in the round in flight and P2, still generating, holds the
\* history from before the round
C18_Witness ==
    \E s \in Sessions :
        /\ InFlight(s)
        /\ call[s].response1 = GeneratedText(ai1_name)
        /\ call[s].response2 = NoResponse
        /\ call[s].task2.debate_history = call[s].task1.debate_history
        /\ call[s].task2.debate_history = NotStarted

\* C19: in every round the first name of the client list is the participant of
\* the first generation call, with the affirmative role, and the second name
\* that of the second call, with the opposing role; every record of history
\* lists P1's response before P2's.
C19_ParticipantOrderFixed ==
    \A s \in Sessions :
        /\ InFlight(s) =>
              /\ call[s].task1.name = client_names[1]
              /\ call[s].task1.system_prompt.role = AffirmativeRole
              /\ call[s].task1.system_prompt.opponent_name = client_names[2]
              /\ call[s].task2.name = client_names[2]
              /\ call[s].task2.system_prompt.role = OpposingRole
              /\ call[s].task2.system_prompt.opponent_name = client_names[1]
        /\ sessions[s].exists =>
              \A i \in 1..Len(sessions[s].history) :
                  /\ RoundItems(sessions[s].history[i])[1][1] = client_names[1]
                  /\ RoundItems(sessions[s].history[i])[2][1] = client_names[2]

\* a second round is in flight with the roles of the first
C19_Witness ==
    \E s \in Sessions :
        /\ InFlight(s)
        /\ sessions[s].round = 2
        /\ call[s].task1.system_prompt.role = AffirmativeRole
        /\ call[s].task2.system_prompt.role = OpposingRole

\* C17: for every non-empty credential c, decrypt_key(encrypt_key(c)) returns,
\* and returns c.
C17_DecryptInvertsEncrypt ==
    crypto.pc = "decrypted" =>
        /\ ~crypto.decrypted.raised
        /\ crypto.decrypted.value = crypto.api_key

\* a credential of several characters, not all ASCII, has made the round trip
C17_Witness ==
    /\ crypto.pc = "decrypted"
    /\ Len(crypto.api_key) > 1
    /\ \E i \in 1..Len(crypto.api_key) : crypto.api_key[i] >= 128
    /\ str_encode(crypto.api_key) # crypto.api_key

\* the step is a call of add_api_key / the state is the one a call left
AddStep == reply'.op = "add_api_key"

\* the entries of a listing with the given alias
EntriesFor(listing, alias) == {i \in 1..Len(listing) : listing[i].alias = alias}

\* C14: an add_api_key of (owner, service, credential, alias) with an alias the
\* owner has not used yet is followed by a listing of the owner's keys that
\* holds an entry with that alias and service whose calls_remaining is the
\* quota the user wanted the key to have, whatever that quota is.
C14_AddThenListShowsQuota ==
    [][(AddStep /\ \A k \in DOMAIN user_api_keys :
                       ~(user_api_keys[k].owner_id = reply'.owner_id
                           /\ user_api_keys[k].alias = reply'.alias)) =>
          LET listing == UserApiKeys(user_api_keys', using_postgres, reply'.owner_id) IN
          \E i \in EntriesFor(listing, reply'.alias) :
              /\ listing[i].service = reply'.service
              /\ \A quota \in QuotaChoices : listing[i].calls_remaining = quota]_vars

\* C15: no two rows of user_api_keys have the same (owner_id, alias); an
\* add_api_key whose (owner_id, alias) is already stored returns False and
\* leaves the table as it is, and the owner's listing shows one entry for the
\* alias.
C15_OwnerAliasUnique ==
    [][/\ \A k1, k2 \in DOMAIN user_api_keys' :
             (user_api_keys'[k1].owner_id = user_api_keys'[k2].owner_id
                /\ user_api_keys'[k1].alias = user_api_keys'[k2].alias) => k1 = k2
       /\ (AddStep /\ \E k \in DOMAIN user_api_keys :
                         /\ user_api_keys[k].owner_id = reply'.owner_id
                         /\ user_api_keys[k].alias = reply'.alias) =>
             /\ reply'.ret = FALSE
             /\ user_api_keys' = user_api_keys
             /\ Cardinality(EntriesFor(UserApiKeys(user_api_keys', using_postgres,
                                                   reply'.owner_id),
                                       reply'.alias)) = 1]_vars

\* a second add with a stored (owner_id, alias) has returned False
C15_Witness ==
    /\ reply.op = "add_api_key"
    /\ reply.ret = FALSE
    /\ using_postgres
    /\ user_profiles[reply.owner_id].exists
    /\ Cardinality({k \in DOMAIN user_api_keys :
                       /\ user_api_keys[k].owner_id = reply.owner_id
                       /\ user_api_keys[k].alias = reply.alias}) = 1

\* the credential a stored row holds
StoredCredential(row) == bytes_decode(row.api_key.data)

\* C16: get_api_key_decrypted(key_id, user_id) returns a credential only if the
\* row with that id exists and its owner_id is user_id, and then it is that
\* row's credential and service; for an id of another owner's row, or of no
\* row, it returns None.
C16_DecryptedOnlyForOwner ==
    reply.op = "get_api_key_decrypted" =>
        IF reply.key_id \in DOMAIN user_api_keys
              /\ user_api_keys[reply.key_id].owner_id = reply.user_id
        THEN reply.ret.found =>
                /\ reply.ret.decrypted_key = StoredCredential(user_api_keys[reply.key_id])
                /\ reply.ret.service = user_api_keys[reply.key_id].service
        ELSE reply.ret = Absent

\* a user asked for the stored key of another owner and got None
C16_Witness ==
    /\ reply.op = "get_api_key_decrypted"
    /\ using_postgres
    /\ reply.key_id \in DOMAIN user_api_keys
    /\ user_api_keys[reply.key_id].owner_id # reply.user_id
    /\ reply.ret = Absent

C13_ClientErrorsStayInBand ==
    (reply.op = "generate_response" /\ reply.failure \in Failures) =>
        /\ reply.ret.kind = "returned"
        /\ HasErrorMarker(reply.ret.text)

\* a topic message of user came to the DebateSession constructor call
ConstructorCalled == reply.op = "handle_question" /\ reply.constructs

\* C30: a DebateSession constructed from a topic, a participants map and a
\* round count, as handle_question and TEST 7 construct it, is a session in
\* NOT_STARTED: round 0, an empty history, is_running false, MAX_ROUNDS and the
\* participants as given.
C30_ConstructedSessionNotStarted ==
    ConstructorCalled =>
        LET session == active_sessions[reply.user_id] IN
        /\ session.exists
        /\ session.round = 0
        /\ session.history = <<>>
        /\ ~session.is_running
        /\ session.MAX_ROUNDS = reply.session_call.max_rounds
        /\ session.clients = reply.session_call.clients_map

\* the keys of user_id that are stored with calls left
KeysWithCalls(user_id) ==
    {k \in DOMAIN user_api_keys : /\ user_api_keys[k].owner_id = user_id
                                  /\ user_api_keys[k].calls_remaining > 0}

\* C29: once a user with two stored keys that have calls left and an active
\* key has sent a topic, a session of that user exists and its first round is
\* committed.
C29_TopicStartsFirstRound ==
    /\ reply.op = "handle_question"
    /\ reply.outcome # "ignored"
    /\ Cardinality(KeysWithCalls(reply.user_id)) >= 2
    /\ user_profiles[reply.user_id].active_key_id # 0
    => LET session == active_sessions[reply.user_id] IN
       /\ session.exists
       /\ session.round = 1
       /\ Len(session.history) = 1

\* C23: a session the controller creates has exactly two participants, two
\* distinct stored keys of the requesting user, with the key ids handed to the
\* session; none is created with fewer than two.
C23_SessionBindsTwoStoredKeys ==
    ConstructorCalled =>
        LET session == active_sessions[reply.user_id] IN
        /\ Len(reply.session_call.clients_map) = 2
        /\ "key_ids_map" \in reply.session_call.kwargs
        /\ session.exists
        /\ Len(session.key_ids) = 2
        /\ session.key_ids[1] # session.key_ids[2]
        /\ \A i \in 1..2 : session.key_ids[i] \in KeysWithCalls(reply.user_id)

\* the answer the claim expects for an update whose handling raised
Apology == "apology"

\* C28: when the handling of an update raised, the user was answered with the
\* apology message.
C28_EscapedExceptionAnswered ==
    /\ reply.op \in {"handle_question", "handle_debate_callback"}
    /\ reply.outcome \in HandlerExceptions
    => reply.answer = Apology

\* the state of a dialog that is waiting for the quota
AWAITING_QUOTA == "AWAITING_QUOTA"

\* an update went through a callback of the dialogs
DialogStep == reply.op = "process_update"

\* C24: the round count handed to a created session is the one the user chose
\* in the rounds dialog and at least 2; a typed round count that is no number
\* or is 1 or less is rejected and leaves the dialog in CHOOSING_ROUNDS.
C24_MaxRoundsIsSelectedCount ==
    /\ ConstructorCalled /\ user_data[reply.user_id].rounds # 0
          => /\ reply.session_call.max_rounds = user_data[reply.user_id].rounds
             /\ reply.session_call.max_rounds >= MinRounds
    /\ \A u \in UserIds : user_data[u].rounds # 0 => user_data[u].rounds >= MinRounds
    /\ DialogStep /\ reply.callback = "receive_custom_rounds"
                  /\ (int(reply.update.data).raised \/ int(reply.update.data).value <= 1)
          => /\ conversations[reply.user_id] = CHOOSING_ROUNDS
             /\ reply.answer \in {"not_a_number", "more_than_one"}

\* C25: the key-registration dialog takes the service, the API key, the alias
\* and the quota in that order, each step waiting for the next input, and a key
\* is persisted only by the step that took the quota.
C25_AddKeyDialogInOrder ==
    DialogStep =>
        /\ reply.update = Command("addkey") /\ reply.state = END
              => conversations[reply.user_id] = AWAITING_SERVICE
        /\ reply.callback = "service_callback"
              => conversations[reply.user_id] = AWAITING_KEY
        /\ reply.callback = "receive_api_key_input" /\ reply.answer = "enter_alias"
              => conversations[reply.user_id] = AWAITING_ALIAS
        /\ reply.callback = "receive_alias_input" /\ reply.answer # "alias_length"
              => conversations[reply.user_id] = AWAITING_QUOTA
        /\ reply.persisted => reply.state = AWAITING_QUOTA

\* C26: after /cancel in any state of a dialog the user is in no dialog, the
\* conversation data holds neither a service choice nor a credential, and
\* nothing was written to the key store.
C26_CancelEndsDialog ==
    DialogStep /\ reply.update = Command("cancel") /\ reply.state \in DialogStates
        => /\ conversations[reply.user_id] = END
           /\ user_data[reply.user_id].service_key = ""
           /\ user_data[reply.user_id].api_key = <<>>
           /\ ~reply.persisted

\* the operations of the key store
StoreOps == {"add_api_key", "get_user_api_keys", "get_api_key_decrypted",
             "decrement_calls", "set_active_key", "get_active_key_id"}

\* the statement of the call that is made raises in the storage layer: sqlite3
\* rejects the %s placeholders of every operation, and PostgreSQL rejects a new
\* row whose owner has no profile row
StorageRaises ==
    \/ ~using_postgres
    \/ /\ reply'.op = "add_api_key"
       /\ ~user_profiles[reply'.owner_id].exists
       /\ \A k \in DOMAIN user_api_keys :
             ~(user_api_keys[k].owner_id = reply'.owner_id
               /\ user_api_keys[k].alias = reply'.alias)

\* the call gave its caller the failure value of its operation
FailureReturned(r) ==
    \/ r.op \in {"add_api_key", "decrement_calls", "set_active_key"} /\ r.ret = FALSE
    \/ r.op = "get_user_api_keys" /\ r.ret = <<>>
    \/ r.op = "get_api_key_decrypted" /\ r.ret = Absent
    \/ r.op = "get_active_key_id" /\ r.ret = 0

\* C27: a key store operation whose statement raises in the storage layer
\* returns False, an empty list or nothing to its caller, and leaves the stored
\* keys and the active-key pointers as they were.
C27_StorageErrorsBecomeFailures ==
    [][reply'.op \in StoreOps /\ StorageRaises
          => /\ FailureReturned(reply')
             /\ user_api_keys' = user_api_keys
             /\ user_profiles' = user_profiles]_vars

\* on SQLite set_active_key of a user with a profile row returned False
C27_Witness ==
    /\ ~using_postgres
    /\ reply.op = "set_active_key"
    /\ user_profiles[reply.user_id].exists
    /\ reply.ret = FALSE

\* the aliases handle_question hands to the constructor as participants
Participants == {reply.session_call.clients_map[i] :
                    i \in 1..Len(reply.session_call.clients_map)}

\* C31: every service tag the add-key dialog offers has a client class in
\* AI_CLIENTS_MAP, and when a topic is handled every stored key of the user
\* with calls left is resolved to a client.
C31_StoredServicesResolve ==
    /\ AVAILABLE_SERVICES \subseteq AI_CLIENTS_MAP
    /\ \A k \in DOMAIN user_api_keys : user_api_keys[k].service \in AVAILABLE_SERVICES
    /\ reply.op = "handle_question" /\ reply.outcome = "no_usable_keys"
          => KeysWithCalls(reply.user_id) = {}
    /\ ConstructorCalled
          => \A k \in KeysWithCalls(reply.user_id) : user_api_keys[k].alias \in Participants

\* a topic of a user with a groq key and a gemini key came to the constructor
\* call with both as participants
C31_Witness ==
    /\ ConstructorCalled
    /\ Cardinality(Participants) = 2
    /\ {user_api_keys[k].service : k \in KeysWithCalls(reply.user_id)} = {"groq", "gemini"}

\* C35: an error string a vendor client returns from generate_response for a
\* failed generation contains the marker next_round tests for.
C35_ErrorStringsCarryMarker ==
    /\ reply.op = "generate_response"
    /\ reply.failure # "none"
    /\ reply.ret.kind = "returned"
    => HasErrorMarker(reply.ret.text)

\* the DeepSeek client returned its string for a failed connection
C35_Witness ==
    /\ reply.op = "generate_response"
    /\ reply.vendor = "deepseek"
    /\ reply.failure = "network"
    /\ reply.ret.kind = "returned"

\* C33: whenever no next_round call of a session is between its gather and its
\* end (it has returned, committed or not, or has ended with an exception), the
\* session's is_running flag is false.
C33_RunningOnlyWhileOutstanding ==
    \A s \in Sessions : AtRest(s) => ~sessions[s].is_running

C36_GoodAdvanceCommits ==
    [][\A s \in Sessions :
          (/\ JoinStep(s)
           /\ GenerationsSucceeded(s)
           /\ sessions[s].round <= sessions[s].MAX_ROUNDS
           /\ \A n \in {ai1_name, ai2_name} : Remaining(sessions[s].key_ids[n]) >= 1) =>
              /\ Committed(s)
              /\ sessions'[s].round = sessions[s].round
              /\ result'[s].kind = "returned"]_vars

\* C38: the active-key pointer of every user profile is empty or the id of a
\* stored key whose owner is that user.
C38_ActiveKeyIsOwnKey ==
    \A u \in UserIds :
        user_profiles[u].exists =>
            \/ user_profiles[u].active_key_id = 0
            \/ /\ user_profiles[u].active_key_id \in DOMAIN user_api_keys
               /\ user_api_keys[user_profiles[u].active_key_id].owner_id = u

\* C37: the update of a user that follows their /addkey command is not handled
\* by handle_question: a text sent after the command is input of the dialog,
\* not a debate topic.
C37_DialogConsumesText ==
    [][(/\ reply.op = "process_update"
        /\ reply.update.kind = "command"
        /\ reply.update.data[1] = "addkey") =>
            ~(reply'.op = "handle_question" /\ reply'.user_id = reply.user_id)]_vars

\* the update handled last was a text message of user_id
TextHandledFor(r, user_id) ==
    \/ r.op = "handle_question" /\ r.user_id = user_id
    \/ r.op = "process_update" /\ r.user_id = user_id /\ r.update.kind = "text"

\* C39: a text shorter than the minimum key length that a user sends after
\* choosing a service in the key-registration dialog is taken by
\* receive_api_key_input, which stores nothing and keeps the dialog awaiting
\* the key.
C39_ShortKeyKeepsAwaitingKey ==
    [][(/\ reply.op = "process_update"
        /\ reply.update.kind = "callback"
        /\ reply.update.data[1] = "service"
        /\ TextHandledFor(reply', reply.user_id)) =>
            /\ reply'.op = "process_update"
            /\ Len(reply'.update.data) < MinApiKeyLen
            /\ reply'.callback = "receive_api_key_input"
            /\ ~reply'.persisted
            /\ conversations'[reply.user_id] = AWAITING_KEY
            /\ user_data'[reply.user_id] = user_data[reply.user_id]]_vars
====
